---- MODULE Spec2Model ----
(***************************************************************************)
(* Model of the docker-helper crate (src/src/lib.rs, src/src/types.rs).     *)
(* Every public function performs one blocking HTTP round trip per          *)
(* send_request call; the daemon's answer to each round trip is chosen      *)
(* nondeterministically.  A state records the last call the caller made,    *)
(* the exchanges (request, response) it performed in order, and how the     *)
(* call ended: Ok(v), Err(e), or a panic that unwinds out of the call.      *)
(***************************************************************************)
EXTENDS Integers, Sequences, FiniteSets, TLC

VARIABLES pc, call, trace, outcome

vars == <<pc, call, trace, outcome>>

----------------------------------------------------------------------------
(* Bounds and input sets *)

MaxLen == 2

ContainerNames == {"test"}
ImageNames == {"ubuntu:20.04"}
NetworkModes == {"host"}
ContainerIds == {"x", "missing"}

StatusCodes == {200, 204, 205, 299, 500}

----------------------------------------------------------------------------
(* JSON documents the daemon can send.  An object is described by the      *)
(* fields the deserializers of types.rs look for.                           *)

JsonObject(hasId, id, hasNet, nets) ==
    [hasId |-> hasId, Id |-> id, hasNet |-> hasNet, nets |-> nets]

MessageObject == JsonObject(FALSE, "", FALSE, {})
CreatedObjects == {JsonObject(TRUE, "c1", FALSE, {}), JsonObject(TRUE, "c2", FALSE, {})}

ImageItem == JsonObject(TRUE, "abc123", FALSE, {})
ContainerNoNetwork == JsonObject(TRUE, "x", TRUE, {})
ContainerOneNetwork ==
    JsonObject(TRUE, "x", TRUE, {[name |-> "bridge", ip_address |-> "172.17.0.2"]})
ContainerTwoNetworks ==
    JsonObject(TRUE, "y", TRUE, {[name |-> "bridge", ip_address |-> "172.17.0.3"],
                                 [name |-> "host", ip_address |-> "10.0.0.5"]})

ListItems == {ContainerNoNetwork, ContainerOneNetwork, ContainerTwoNetworks}

SeqsUpTo(S, n) == UNION {[1..k -> S] : k \in 0..n}

EmptyDoc == [t |-> "empty", txt |-> "", items |-> <<>>, obj |-> MessageObject]
TextDoc == [t |-> "text", txt |-> "internal error", items |-> <<>>, obj |-> MessageObject]
ObjectDoc(o) == [t |-> "obj", txt |-> "", items |-> <<>>, obj |-> o]
ArrayDoc(s) == [t |-> "arr", txt |-> "", items |-> s, obj |-> MessageObject]

Docs ==
    {EmptyDoc, TextDoc}
    \cup {ObjectDoc(o) : o \in CreatedObjects \cup {MessageObject}}
    \cup {ArrayDoc(s) : s \in SeqsUpTo(ListItems, MaxLen)}
    \cup {ArrayDoc(<<ImageItem>>)}

(* Response bodies: bytes that decode as UTF-8 to a document, or bytes     *)
(* that do not decode.                                                      *)
InvalidUtf8Body == [utf8 |-> FALSE, doc |-> EmptyDoc]
Bodies == {[utf8 |-> TRUE, doc |-> d] : d \in Docs} \cup {InvalidUtf8Body}

(* What the daemon does with one round trip: the transfer fails, or it     *)
(* completes with a status code and a body.                                 *)
ConnectionFailure == [conn |-> FALSE, status |-> 0, body |-> InvalidUtf8Body]
Responses ==
    {[conn |-> TRUE, status |-> s, body |-> b] : s \in StatusCodes, b \in Bodies}
    \cup {ConnectionFailure}

----------------------------------------------------------------------------
(* Results *)

Unit == "()"
NoData == [some |-> FALSE, Image |-> "", NetworkMode |-> ""]
NoError == [kind |-> "none", path |-> <<>>, data |-> EmptyDoc, id |-> ""]

Ok(v) == [tag |-> "ok", val |-> v, err |-> NoError]
Err(e) == [tag |-> "err", val |-> Unit, err |-> e]
Panic == [tag |-> "panic", val |-> Unit, err |-> NoError]
NoOutcome == [tag |-> "none", val |-> Unit, err |-> NoError]

(* transfer.perform()? *)
CurlError == [kind |-> "curl", path |-> <<>>, data |-> EmptyDoc, id |-> ""]
ApiError_WithoutPath(path, data) == [kind |-> "api", path |-> <<>>, data |-> data, id |-> ""]
(* anyhow!("Docker API call ({}) failed: {}", &path, data) *)
ApiError(path, data) == [kind |-> "api", path |-> path, data |-> data, id |-> ""]
(* format!("Failed to parse find_images response json: {}", resp) *)
FindParseError(resp) == [kind |-> "parse_find", path |-> <<>>, data |-> resp, id |-> ""]
(* format!("Failed to parse create_container response json: {}", resp) *)
CreateParseError(resp) == [kind |-> "parse_create", path |-> <<>>, data |-> resp, id |-> ""]
(* format!("No containers found with ID = {}", id) *)
NoContainerError(id) == [kind |-> "no_container", path |-> <<>>, data |-> EmptyDoc, id |-> id]
(* format!("No network found for container with ID = {}", id) *)
NoNetworkError(id) == [kind |-> "no_network", path |-> <<>>, data |-> EmptyDoc, id |-> id]

Result(tr, out) == [trace |-> tr, out |-> out]

----------------------------------------------------------------------------
(* Transport *)

IsSuccessStatus_Any2xx(code) == code \in 200..299

IsSuccessStatus(code) == code \in 200..204

Method(post, delete) == IF delete THEN "DELETE" ELSE IF post THEN "POST" ELSE "GET"

Request(path, post, delete, maybe_json_data) ==
    [method |-> Method(post, delete),
     path |-> path,
     content_type_json |-> maybe_json_data.some,
     data |-> maybe_json_data]

send_request(path, post, delete, maybe_json_data, resp) ==
    LET exchange == [req |-> Request(path, post, delete, maybe_json_data), resp |-> resp]
        out == IF ~resp.conn THEN Err(CurlError)
               ELSE IF ~resp.body.utf8 THEN Panic
               ELSE IF IsSuccessStatus(resp.status) THEN Ok(resp.body.doc)
               ELSE Err(ApiError(path, resp.body.doc))
    IN Result(<<exchange>>, out)

(* let _ = send_request(..)?; Ok(()) *)
DiscardBody(r) == IF r.out.tag = "ok" THEN Result(r.trace, Ok(Unit)) ELSE r

----------------------------------------------------------------------------
(* Serialization *)

(* urlencoding::encode on the strings that occur *)
encode(s) ==
    CASE s = "{\"reference\":[\"" -> "%7B%22reference%22%3A%5B%22"
      [] s = "{\"id\":[\"" -> "%7B%22id%22%3A%5B%22"
      [] s = "\"]}" -> "%22%5D%7D"
      [] s = "ubuntu:20.04" -> "ubuntu%3A20.04"
      [] OTHER -> s

encodeAll(toks) == [i \in 1..Len(toks) |-> encode(toks[i])]

ImageFilter_to_string(reference) == <<"{\"reference\":[\"", reference, "\"]}">>
ContainerFilter_to_string(id) == <<"{\"id\":[\"", id, "\"]}">>

CreateContainer(image, network_mode) ==
    [some |-> TRUE, Image |-> image, NetworkMode |-> network_mode]

from_str_ImageDescriptors_EmptyAsNoImages(doc) ==
    IF doc.t = "empty" THEN Ok(<<>>)
    ELSE IF doc.t = "arr" /\ \A i \in 1..Len(doc.items) : doc.items[i].hasId
    THEN Ok([i \in 1..Len(doc.items) |-> [id |-> doc.items[i].Id]])
    ELSE Err([kind |-> "parse_find", path |-> <<>>, data |-> doc, id |-> ""])

from_str_ImageDescriptors(doc) ==
    IF doc.t = "arr" /\ \A i \in 1..Len(doc.items) : doc.items[i].hasId
    THEN Ok([i \in 1..Len(doc.items) |-> [id |-> doc.items[i].Id]])
    ELSE Err(FindParseError(doc))

from_str_ContainerDescriptors(doc) ==
    IF doc.t = "arr" /\ \A i \in 1..Len(doc.items) : doc.items[i].hasId /\ doc.items[i].hasNet
    THEN Ok([i \in 1..Len(doc.items) |->
                [id |-> doc.items[i].Id, networks |-> doc.items[i].nets]])
    ELSE Err(FindParseError(doc))

from_str_CreateContainerResult(doc) ==
    IF doc.t = "obj" /\ doc.obj.hasId
    THEN Ok(doc.obj.Id)
    ELSE Err(CreateParseError(doc))

----------------------------------------------------------------------------
(* Operations, each applied to the daemon's answer to its round trip *)

pull_image(image_name, resp) ==
    DiscardBody(send_request(<<"/images/create?fromImage=", image_name>>,
                             TRUE, FALSE, NoData, resp))

start_container(id, resp) ==
    DiscardBody(send_request(<<"/containers/", id, "/start">>, TRUE, FALSE, NoData, resp))

stop_container(id, resp) ==
    DiscardBody(send_request(<<"/containers/", id, "/stop">>, TRUE, FALSE, NoData, resp))

delete_container_ErrorsDropped(id, resp) ==
    LET r == send_request(<<"/containers/", id>>, FALSE, TRUE, NoData, resp)
    IN IF r.out.tag = "panic" THEN r ELSE Result(r.trace, Ok(Unit))

delete_container(id, resp) ==
    DiscardBody(send_request(<<"/containers/", id>>, FALSE, TRUE, NoData, resp))

prune_containers(resp) ==
    LET r == send_request(<<"/containers/prune">>, TRUE, FALSE, NoData, resp)
    IN IF r.out.tag = "panic" THEN r ELSE Result(r.trace, Ok(Unit))

find_containers(id, resp) ==
    LET path == <<"/containers/json?filters=">> \o encodeAll(ContainerFilter_to_string(id))
        r == send_request(path, FALSE, FALSE, NoData, resp)
    IN IF r.out.tag = "ok"
       THEN Result(r.trace, from_str_ContainerDescriptors(r.out.val))
       ELSE r

find_images(reference, resp) ==
    LET path == <<"/images/json?filters=">> \o encodeAll(ImageFilter_to_string(reference))
        r == send_request(path, FALSE, FALSE, NoData, resp)
    IN IF r.out.tag = "ok"
       THEN Result(r.trace, from_str_ImageDescriptors(r.out.val))
       ELSE r

create_container_ReturnsName(container_name, request, resp) ==
    LET path == <<"/containers/create?name=", container_name>>
        r == send_request(path, TRUE, FALSE, request, resp)
        parsed == from_str_CreateContainerResult(r.out.val)
    IN IF r.out.tag = "ok"
       THEN Result(r.trace, IF parsed.tag = "ok" THEN Ok(container_name) ELSE parsed)
       ELSE r

create_container(container_name, request, resp) ==
    LET path == <<"/containers/create?name=", container_name>>
        r == send_request(path, TRUE, FALSE, request, resp)
    IN IF r.out.tag = "ok"
       THEN Result(r.trace, from_str_CreateContainerResult(r.out.val))
       ELSE r

get_container_ip_LastContainer(id, resp) ==
    LET r == find_containers(id, resp)
    IN IF r.out.tag # "ok" THEN {r}
       ELSE IF r.out.val = <<>> THEN {Result(r.trace, Err(NoContainerError(id)))}
       ELSE IF r.out.val[Len(r.out.val)].networks = {}
            THEN {Result(r.trace, Err(NoNetworkError(id)))}
       ELSE {Result(r.trace, Ok(n.ip_address)) : n \in r.out.val[Len(r.out.val)].networks}

(* The set of results get_container_ip can produce: networks is a HashMap, *)
(* so values().next() yields whichever entry the iteration visits first.   *)
get_container_ip(id, resp) ==
    LET r == find_containers(id, resp)
    IN IF r.out.tag # "ok" THEN {r}
       ELSE IF r.out.val = <<>> THEN {Result(r.trace, Err(NoContainerError(id)))}
       ELSE IF r.out.val[1].networks = {} THEN {Result(r.trace, Err(NoNetworkError(id)))}
       ELSE {Result(r.trace, Ok(n.ip_address)) : n \in r.out.val[1].networks}

----------------------------------------------------------------------------
(* The caller: one call at a time, each returning before the next starts *)

Init ==
    /\ pc = "ready"
    /\ call = [op |-> "none", args |-> <<>>]
    /\ trace = <<>>
    /\ outcome = NoOutcome

Return(op, args, r) ==
    /\ pc' = "returned"
    /\ call' = [op |-> op, args |-> args]
    /\ trace' = r.trace
    /\ outcome' = r.out

Call_pull_image ==
    /\ pc = "ready"
    /\ \E image_name \in ImageNames, resp \in Responses :
          Return("pull_image", <<image_name>>, pull_image(image_name, resp))

Call_start_container ==
    /\ pc = "ready"
    /\ \E id \in ContainerIds, resp \in Responses :
          Return("start_container", <<id>>, start_container(id, resp))

Call_stop_container ==
    /\ pc = "ready"
    /\ \E id \in ContainerIds, resp \in Responses :
          Return("stop_container", <<id>>, stop_container(id, resp))

Call_delete_container ==
    /\ pc = "ready"
    /\ \E id \in ContainerIds, resp \in Responses :
          Return("delete_container", <<id>>, delete_container(id, resp))

Call_prune_containers ==
    /\ pc = "ready"
    /\ \E resp \in Responses :
          Return("prune_containers", <<>>, prune_containers(resp))

Call_find_containers ==
    /\ pc = "ready"
    /\ \E id \in ContainerIds, resp \in Responses :
          Return("find_containers", <<id>>, find_containers(id, resp))

Call_find_images ==
    /\ pc = "ready"
    /\ \E reference \in ImageNames, resp \in Responses :
          Return("find_images", <<reference>>, find_images(reference, resp))

Call_get_container_ip ==
    /\ pc = "ready"
    /\ \E id \in ContainerIds, resp \in Responses :
          \E r \in get_container_ip(id, resp) :
              Return("get_container_ip", <<id>>, r)

(* The ? operator: anything but Ok leaves the enclosing function. *)
Propagates(out) == out.tag # "ok"

is_empty_Always(v) == TRUE

is_empty(v) == v = <<>>

CreateAndStart_StartErrorDropped(args, tr) ==
    \E r3 \in Responses :
        LET cr == create_container(args[1], CreateContainer(args[2], args[3]), r3)
        IN IF Propagates(cr.out)
           THEN Return("start_container_with_network_mode", args,
                       Result(tr \o cr.trace, cr.out))
           ELSE \E r4 \in Responses :
                    LET id == cr.out.val
                        st == start_container(id, r4)
                        all == tr \o cr.trace \o st.trace
                    IN IF st.out.tag = "panic"
                       THEN Return("start_container_with_network_mode", args,
                                   Result(all, st.out))
                       ELSE Return("start_container_with_network_mode", args,
                                   Result(all, Ok(id)))

(* create_container(..)?; start_container(&id)?; Ok(id) *)
CreateAndStart(args, tr) ==
    \E r3 \in Responses :
        LET cr == create_container(args[1], CreateContainer(args[2], args[3]), r3)
        IN IF Propagates(cr.out)
           THEN Return("start_container_with_network_mode", args,
                       Result(tr \o cr.trace, cr.out))
           ELSE \E r4 \in Responses :
                    LET id == cr.out.val
                        st == start_container(id, r4)
                        all == tr \o cr.trace \o st.trace
                    IN IF Propagates(st.out)
                       THEN Return("start_container_with_network_mode", args,
                                   Result(all, st.out))
                       ELSE Return("start_container_with_network_mode", args,
                                   Result(all, Ok(id)))

start_container_with_network_mode ==
    /\ pc = "ready"
    /\ \E container_name \in ContainerNames, image \in ImageNames,
          network_mode \in NetworkModes, r1 \in Responses :
          LET args == <<container_name, image, network_mode>>
              existing_images == find_images(image, r1)
          IN IF Propagates(existing_images.out)
             THEN Return("start_container_with_network_mode", args, existing_images)
             ELSE IF is_empty(existing_images.out.val)
             THEN \E r2 \in Responses :
                      LET pl == pull_image(image, r2)
                          tr == existing_images.trace \o pl.trace
                      IN IF Propagates(pl.out)
                         THEN Return("start_container_with_network_mode", args,
                                     Result(tr, pl.out))
                         ELSE CreateAndStart(args, tr)
             ELSE CreateAndStart(args, existing_images.trace)

stop_and_cleanup_container ==
    /\ pc = "ready"
    /\ \E id \in ContainerIds, r1 \in Responses :
          LET st == stop_container(id, r1)
          IN IF Propagates(st.out)
             THEN Return("stop_and_cleanup_container", <<id>>, st)
             ELSE \E r2 \in Responses :
                      LET dl == delete_container(id, r2)
                      IN Return("stop_and_cleanup_container", <<id>>,
                                Result(st.trace \o dl.trace, dl.out))

(* The caller has the result and is free to make its next call. *)
NextCall ==
    /\ pc = "returned"
    /\ pc' = "ready"
    /\ call' = [op |-> "none", args |-> <<>>]
    /\ trace' = <<>>
    /\ outcome' = NoOutcome

Next ==
    \/ Call_pull_image
    \/ Call_start_container
    \/ Call_stop_container
    \/ Call_delete_container
    \/ Call_prune_containers
    \/ Call_find_containers
    \/ Call_find_images
    \/ Call_get_container_ip
    \/ start_container_with_network_mode
    \/ stop_and_cleanup_container
    \/ NextCall

Spec == Init /\ [][Next]_vars

----------------------------------------------------------------------------
(* Vocabulary of the properties *)

Done == pc = "returned"
Returned(op) == pc = "returned" /\ call.op = op

NumRequests == Len(trace)
Last == trace[Len(trace)]

IsFindImagesReq(e) == e.req.method = "GET" /\ e.req.path[1] = "/images/json?filters="
IsFindContainersReq(e) == e.req.method = "GET" /\ e.req.path[1] = "/containers/json?filters="
IsPullReq(e) == e.req.path[1] = "/images/create?fromImage="
IsCreateReq(e) == e.req.path[1] = "/containers/create?name="
IsStartReq(e) == Len(e.req.path) = 3 /\ e.req.path[1] = "/containers/" /\ e.req.path[3] = "/start"
IsStopReq(e) == Len(e.req.path) = 3 /\ e.req.path[1] = "/containers/" /\ e.req.path[3] = "/stop"
IsDeleteReq(e) == e.req.method = "DELETE"
IsPruneReq(e) == e.req.path = <<"/containers/prune">>

Indices(P(_)) == {i \in 1..Len(trace) : P(trace[i])}

(* The daemon completed the round trip with a status in 200-204 and text. *)
Answered200to204(e) ==
    e.resp.conn /\ e.resp.body.utf8 /\ e.resp.status >= 200 /\ e.resp.status <= 204
AnsweredNon200to204(e) ==
    e.resp.conn /\ (e.resp.status < 200 \/ e.resp.status > 204)
AnsweredInvalidUtf8(e) == e.resp.conn /\ ~e.resp.body.utf8
AnsweredEmpty200to204(e) == Answered200to204(e) /\ e.resp.body.doc = EmptyDoc

(* The image list carried by a find_images answer, when it carries one. *)
CarriesImageList(e) ==
    /\ Answered200to204(e)
    /\ e.resp.body.doc.t = "arr"
    /\ \A i \in 1..Len(e.resp.body.doc.items) : e.resp.body.doc.items[i].hasId
ImageListLen(e) == Len(e.resp.body.doc.items)

----------------------------------------------------------------------------
(* C1: in start_container_with_network_mode, a non-empty find_images       *)
(* result means no pull request is issued; an empty result means exactly   *)
(* one pull request, issued before any create request; after a successful  *)
(* pull the create request follows without a second find_images query.     *)
C1_PullOnlyWhenImageAbsent ==
    Returned("start_container_with_network_mode") =>
        /\ NumRequests >= 1 /\ IsFindImagesReq(trace[1])
        /\ (CarriesImageList(trace[1]) /\ ImageListLen(trace[1]) > 0)
              => Indices(IsPullReq) = {}
        /\ (CarriesImageList(trace[1]) /\ ImageListLen(trace[1]) = 0)
              => /\ Indices(IsPullReq) = {2}
                 /\ trace[2].req.method = "POST"
                 /\ \A j \in Indices(IsCreateReq) : j > 2
                 /\ Answered200to204(trace[2])
                       => NumRequests >= 3 /\ IsCreateReq(trace[3])
        /\ Indices(IsFindImagesReq) = {1}

C1_Witness ==
    /\ Returned("start_container_with_network_mode")
    /\ CarriesImageList(trace[1]) /\ ImageListLen(trace[1]) = 0
    /\ NumRequests = 4
    /\ IsPullReq(trace[2]) /\ IsCreateReq(trace[3])
    /\ outcome.tag = "ok"

----------------------------------------------------------------------------
(* What each step of a composite returned, recomputed from its exchange. *)
StepOutcome(e) ==
    IF IsFindImagesReq(e) THEN find_images(call.args[2], e.resp).out
    ELSE IF IsPullReq(e) THEN pull_image(call.args[2], e.resp).out
    ELSE IF IsCreateReq(e)
         THEN create_container(call.args[1], e.req.data, e.resp).out
    ELSE IF IsStartReq(e) THEN start_container(e.req.path[2], e.resp).out
    ELSE IF IsStopReq(e) THEN stop_container(e.req.path[2], e.resp).out
    ELSE delete_container(e.req.path[2], e.resp).out

(* C2: a composite stops at its first failing step and returns that step's *)
(* error; no request follows the failing one, and                          *)
(* start_container_with_network_mode never issues a stop, delete or prune  *)
(* request to roll back.                                                   *)
C2_StopAtFirstFailure ==
    /\ Returned("start_container_with_network_mode") =>
          /\ \A i \in 1..NumRequests :
                /\ StepOutcome(trace[i]).tag # "ok" => i = NumRequests
                /\ StepOutcome(trace[i]).tag = "err" => outcome = StepOutcome(trace[i])
          /\ Indices(IsStopReq) \cup Indices(IsDeleteReq) \cup Indices(IsPruneReq) = {}
    /\ Returned("stop_and_cleanup_container") =>
          /\ IsStopReq(trace[1])
          /\ StepOutcome(trace[1]).tag # "ok" => NumRequests = 1 /\ Indices(IsDeleteReq) = {}
          /\ StepOutcome(trace[1]).tag = "err" => outcome = StepOutcome(trace[1])

C2_Witness ==
    /\ Returned("start_container_with_network_mode")
    /\ NumRequests = 4
    /\ IsStartReq(trace[4])
    /\ AnsweredNon200to204(trace[4]) /\ trace[4].resp.body.utf8
    /\ outcome.tag = "err"

----------------------------------------------------------------------------
(* C3: prune_containers reports success whatever happens to its request:   *)
(* connection failure, any status code, any body (empty or not UTF-8).     *)
C3_PruneAlwaysSucceeds ==
    Returned("prune_containers") => outcome = Ok(Unit)

----------------------------------------------------------------------------
(* C4 as claimed: pull_image issues one POST                               *)
(* /images/create?fromImage=<image_name> without body and succeeds iff     *)
(* the daemon returns a status in 200..299.                                *)
IsThePullRequest(e) ==
    /\ e.req.method = "POST"
    /\ e.req.path = <<"/images/create?fromImage=", call.args[1]>>
    /\ ~e.req.data.some
    /\ ~e.req.content_type_json

C4_PullSucceedsIff2xx ==
    Returned("pull_image") =>
        /\ NumRequests = 1 /\ IsThePullRequest(trace[1])
        /\ (trace[1].resp.conn /\ trace[1].resp.body.utf8) =>
              (outcome.tag = "ok" <=>
                  (trace[1].resp.status >= 200 /\ trace[1].resp.status <= 299))

(* C4 amended: pull_image issues one POST                                  *)
(* /images/create?fromImage=<image_name> without body; it returns success  *)
(* only for a status in 200..204, every other status (205..299 included)   *)
(* never gives success, and a status in 200..204 with a decodable body     *)
(* gives success.                                                          *)
C4_PullSucceedsIff200to204 ==
    Returned("pull_image") =>
        /\ NumRequests = 1 /\ IsThePullRequest(trace[1])
        /\ outcome.tag = "ok" => Answered200to204(trace[1])
        /\ Answered200to204(trace[1]) => outcome = Ok(Unit)
        /\ AnsweredNon200to204(trace[1]) => outcome.tag # "ok"
        /\ (AnsweredNon200to204(trace[1]) /\ trace[1].resp.body.utf8) => outcome.tag = "err"

C4_Witness ==
    /\ Returned("pull_image")
    /\ trace[1].resp.conn /\ trace[1].resp.body.utf8
    /\ trace[1].resp.status = 299
    /\ outcome.tag = "err"

----------------------------------------------------------------------------
(* The error message carries the path and the body text of exchange e. *)
MessageCarries(err, e) == err.path = e.req.path /\ err.data = e.resp.body.doc

(* C5 as claimed: when the daemon answers a request with a status outside  *)
(* 200-204 and a text body, whichever public operation issued it returns   *)
(* an error whose message contains the request path and the body text.     *)
C5_Non2xxIsApiErrorForAnyOperation ==
    Done =>
        \A i \in 1..NumRequests :
            (AnsweredNon200to204(trace[i]) /\ trace[i].resp.body.utf8) =>
                outcome.tag = "err" /\ MessageCarries(outcome.err, trace[i])

(* C5 amended: when the daemon answers a request with a status outside     *)
(* 200-204, every public operation other than prune_containers never       *)
(* returns success, and whenever the body decodes as text it returns an    *)
(* error whose message contains the request path and the body text;        *)
(* prune_containers returns success on such an answer.                     *)
C5_Non2xxIsApiErrorExceptPrune ==
    Done =>
        \A i \in 1..NumRequests :
            AnsweredNon200to204(trace[i]) =>
                IF call.op = "prune_containers"
                THEN trace[i].resp.body.utf8 => outcome = Ok(Unit)
                ELSE /\ outcome.tag # "ok"
                     /\ i = NumRequests
                     /\ trace[i].resp.body.utf8 =>
                           /\ outcome.tag = "err"
                           /\ outcome.err.kind = "api"
                           /\ MessageCarries(outcome.err, trace[i])

C5_Witness ==
    /\ Returned("stop_and_cleanup_container")
    /\ NumRequests = 2
    /\ trace[2].resp.status = 500
    /\ trace[2].resp.body = [utf8 |-> TRUE, doc |-> TextDoc]
    /\ outcome.tag = "err"
    /\ outcome.err.data = TextDoc

----------------------------------------------------------------------------
(* C6: get_container_ip issues exactly one GET /containers/json request;   *)
(* a failed request or parse is returned as that error; an empty list and  *)
(* a first container without networks give two distinct lookup errors;     *)
(* otherwise the result is the address of a network of the first           *)
(* container of the list.                                                  *)
C6_ContainerIpLookup ==
    Returned("get_container_ip") =>
        LET e == trace[1]
            fc == find_containers(call.args[1], e.resp).out
            doc == e.resp.body.doc
        IN /\ NumRequests = 1 /\ IsFindContainersReq(e)
           /\ fc.tag = "err" => outcome = fc
           /\ fc.tag = "ok" =>
                 /\ Len(doc.items) = 0 =>
                       /\ outcome.tag = "err"
                       /\ outcome.err.kind = "no_container"
                       /\ outcome.err.id = call.args[1]
                 /\ (Len(doc.items) > 0 /\ doc.items[1].nets = {}) =>
                       /\ outcome.tag = "err"
                       /\ outcome.err.kind = "no_network"
                       /\ outcome.err # NoContainerError(call.args[1])
                 /\ (Len(doc.items) > 0 /\ doc.items[1].nets # {}) =>
                       /\ outcome.tag = "ok"
                       /\ outcome.val \in {n.ip_address : n \in doc.items[1].nets}

C6_Witness ==
    /\ Returned("get_container_ip")
    /\ trace[1].resp.status = 200
    /\ trace[1].resp.body.utf8
    /\ trace[1].resp.body.doc = ArrayDoc(<<ContainerOneNetwork, ContainerTwoNetworks>>)
    /\ outcome = Ok("172.17.0.2")

----------------------------------------------------------------------------
(* C7: a response body that is not valid UTF-8 ends the call with an error *)
(* value returned to the caller, for every operation and status code, and  *)
(* the request is not retried.                                             *)
C7_InvalidUtf8IsReturnedError ==
    Done =>
        \A i \in 1..NumRequests :
            AnsweredInvalidUtf8(trace[i]) => outcome.tag = "err" /\ i = NumRequests

----------------------------------------------------------------------------
(* C8: stop_and_cleanup_container issues the stop request first; the       *)
(* delete request is issued only after a successful stop, is exactly one   *)
(* DELETE /containers/<id> for the same id, and the call succeeds iff both *)
(* stop and delete succeeded.                                              *)
C8_StopThenDelete ==
    Returned("stop_and_cleanup_container") =>
        LET id == call.args[1]
        IN /\ NumRequests >= 1
           /\ trace[1].req.method = "POST"
           /\ trace[1].req.path = <<"/containers/", id, "/stop">>
           /\ Indices(IsDeleteReq) \subseteq {2}
           /\ NumRequests <= 2
           /\ NumRequests = 2 <=> Answered200to204(trace[1])
           /\ NumRequests = 2 =>
                 /\ trace[2].req.method = "DELETE"
                 /\ trace[2].req.path = <<"/containers/", id>>
           /\ outcome.tag = "ok" <=>
                 (NumRequests = 2 /\ Answered200to204(trace[1]) /\ Answered200to204(trace[2]))

C8_Witness ==
    /\ Returned("stop_and_cleanup_container")
    /\ NumRequests = 2
    /\ Answered200to204(trace[1])
    /\ IsDeleteReq(trace[2])
    /\ AnsweredNon200to204(trace[2])
    /\ outcome.tag = "err"

----------------------------------------------------------------------------
(* C9: a successful start_container_with_network_mode issued, in order,    *)
(* find_images, optionally one pull, one create carrying the image and     *)
(* network mode, one start; the returned id is the Id of the create        *)
(* response and the start path is /containers/<id>/start; every request    *)
(* got a status in 200-204.  No call issues more than 4 requests.          *)
C9_SuccessfulStartSequence ==
    Returned("start_container_with_network_mode") =>
        /\ NumRequests <= 4
        /\ outcome.tag = "ok" =>
              LET n == NumRequests
                  X == outcome.val
              IN /\ n \in {3, 4}
                 /\ IsFindImagesReq(trace[1])
                 /\ n = 4 => IsPullReq(trace[2]) /\ trace[2].req.method = "POST"
                 /\ Indices(IsPullReq) \subseteq {2}
                 /\ Indices(IsCreateReq) = {n - 1}
                 /\ trace[n - 1].req.method = "POST"
                 /\ trace[n - 1].req.content_type_json
                 /\ trace[n - 1].req.data =
                       [some |-> TRUE, Image |-> call.args[2], NetworkMode |-> call.args[3]]
                 /\ Indices(IsStartReq) = {n}
                 /\ trace[n].req.method = "POST"
                 /\ trace[n].req.path = <<"/containers/", X, "/start">>
                 /\ trace[n - 1].resp.body.doc.t = "obj"
                 /\ trace[n - 1].resp.body.doc.obj.hasId
                 /\ X = trace[n - 1].resp.body.doc.obj.Id
                 /\ \A i \in 1..n : Answered200to204(trace[i])

C9_Witness ==
    /\ Returned("start_container_with_network_mode")
    /\ outcome = Ok("c2")
    /\ NumRequests = 4
    /\ trace[4].req.path = <<"/containers/", "c2", "/start">>

----------------------------------------------------------------------------
BodyIgnoringOps ==
    {"pull_image", "start_container", "stop_container", "delete_container",
     "prune_containers", "stop_and_cleanup_container"}

AllAnsweredEmpty200to204 ==
    NumRequests >= 1 /\ \A i \in 1..NumRequests : AnsweredEmpty200to204(trace[i])

(* C10 as claimed: a daemon answering every request with a status in       *)
(* 200-204 and an empty body never makes a public operation return an      *)
(* error.                                                                  *)
C10_EmptyBodyNeverAnError ==
    (Done /\ AllAnsweredEmpty200to204) => outcome.tag = "ok"

(* C10 amended: an empty body with a status in 200-204 is a success for    *)
(* the operations that ignore the body (pull_image, start_container,       *)
(* stop_container, delete_container, prune_containers,                     *)
(* stop_and_cleanup_container); the operations that parse the body         *)
(* (find_images, find_containers, get_container_ip, and                    *)
(* start_container_with_network_mode at its find_images step) return a     *)
(* parse error carrying the empty body.                                    *)
C10_EmptyBodySuccessUnlessParsed ==
    (Done /\ AllAnsweredEmpty200to204) =>
        IF call.op \in BodyIgnoringOps
        THEN outcome = Ok(Unit)
        ELSE /\ NumRequests = 1
             /\ outcome = Err(FindParseError(EmptyDoc))

C10_Witness ==
    /\ Returned("find_images")
    /\ AllAnsweredEmpty200to204
    /\ outcome.tag = "err"
    /\ outcome.err.kind = "parse_find"
====
